---------------------------- MODULE Spec2Model ----------------------------
(***************************************************************************)
(* A model of the two scripts of the repository:                           *)
(*   04_summarizer.py      fetch one page, ask the model for a summary     *)
(*   05_brochure_maker.py  fetch a landing page, let the model select      *)
(*                         links, fetch them, ask for a brochure           *)
(* Python strings are TLA+ strings.  An optional value (None or a value)   *)
(* is a sequence of length 0 or 1.  The web and the text-generation        *)
(* service are the environment: each HTTP GET and each chat request draws  *)
(* its answer from a bounded set.  Transport exceptions (no connection,    *)
(* time-out, API error) are not modelled: every request gets an answer.    *)
(***************************************************************************)
EXTENDS Integers, Sequences, FiniteSets, TLC

VARIABLES
    script,     \* which script runs: "summarizer" or "brochure"
    api_key,    \* os.getenv("OPENAI_API_KEY"): None or a string
    client,     \* the OpenAI client: None, or the key it was built with
    pc,         \* the position of the run
    err,        \* the exception that ended the run, "none" while it runs
    out,        \* what was printed, in order
    net,        \* the network calls issued, in order
    resp,       \* the last HTTP response received (None before the first)
    site,       \* the Website object a function holds (None when none)
    result,     \* get_all_details' accumulator
    links,      \* the parsed classifier reply's "links" list
    idx,        \* position of get_all_details' loop in links (0: not in it)
    details,    \* get_all_details' return value (None until it returns)
    answer      \* summarize's / create_brochure's return value (None until)

vars == <<script, api_key, client, pc, err, out, net, resp, site, result,
          links, idx, details, answer>>

---------------------------------------------------------------------------
(* Bounds of the model *)

\* The longest list of links the classifier selects.
MaxLinks == 2

\* The largest number of anchor elements in a fetched document.
MaxAnchors == 3

---------------------------------------------------------------------------
(* Python values *)

None == <<>>
Some(v) == <<v>>

\* Python's truth value of an optional string: None and "" are false.
Truthy(o) == o # None /\ o[1] # ""

\* str.startswith
StartsWith(s, p) == Len(s) >= Len(p) /\ SubSeq(s, 1, Len(p)) = p

IsSpace(c) == c \in {" ", "\t", "\n", "\r", "\f"}

RECURSIVE LStrip(_)
LStrip(s) ==
    IF Len(s) > 0 /\ IsSpace(SubSeq(s, 1, 1))
    THEN LStrip(SubSeq(s, 2, Len(s)))
    ELSE s

RECURSIVE RStrip(_)
RStrip(s) ==
    IF Len(s) > 0 /\ IsSpace(SubSeq(s, Len(s), Len(s)))
    THEN RStrip(SubSeq(s, 1, Len(s) - 1))
    ELSE s

\* str.strip
Strip(s) == RStrip(LStrip(s))

\* sep.join(strs)
RECURSIVE Join(_, _)
Join(sep, strs) ==
    IF Len(strs) = 0 THEN ""
    ELSE IF Len(strs) = 1 THEN strs[1]
    ELSE strs[1] \o sep \o Join(sep, Tail(strs))

\* s repeated 2^k times
RECURSIVE Doubled(_, _)
Doubled(s, k) == IF k = 0 THEN s ELSE Doubled(s \o s, k - 1)

\* All sequences over S of length at most n.
SeqsUpTo(S, n) == UNION {[1..k -> S] : k \in 0..n}

Last(s) == s[Len(s)]

---------------------------------------------------------------------------
(* Section 1 of both scripts: the credential check *)

\* The prefix both scripts expect of the key.
KeyPrefix == "sk-proj-"

\* A variant of KeyCheck04 that tests "api_key is None" instead of the truth
\* value: the empty key is no longer fatal.
KeyCheck04NoneOnly(key) ==
    IF key = None THEN "ValueError"
    ELSE IF ~StartsWith(key[1], KeyPrefix) THEN "WARN_PREFIX"
    ELSE IF Strip(key[1]) # key[1] THEN "WARN_WHITESPACE"
    ELSE "KEY_VALID"

\* 04_summarizer.py: the if/elif chain on api_key.  "ValueError" is the raise,
\* every other outcome is the message printed.
KeyCheck04(key) ==
    IF ~Truthy(key) THEN "ValueError"
    ELSE IF ~StartsWith(key[1], KeyPrefix) THEN "WARN_PREFIX"
    ELSE IF Strip(key[1]) # key[1] THEN "WARN_WHITESPACE"
    ELSE "KEY_VALID"

\* 05_brochure_maker.py: one condition, whose else branch raises.
KeyCheck05(key) ==
    IF Truthy(key) /\ StartsWith(key[1], KeyPrefix) /\ Len(key[1]) > 10
    THEN "KEY_GOOD"
    ELSE "ValueError"

KeyCheck(s, key) == IF s = "summarizer" THEN KeyCheck04(key) ELSE KeyCheck05(key)

---------------------------------------------------------------------------
(* Section 2 of both scripts: class Website *)

(* A document as BeautifulSoup sees it.                                    *)
(*   title    None when there is no <title>, else the element's children   *)
(*   body     None when there is no <body>, else its nodes in order        *)
(*   anchors  the href attribute of every <a> of the document, in order:   *)
(*            None when the attribute is missing                           *)
(* A node is [tag, text]: tag "#text" is a string of the document, any     *)
(* other tag an element holding the one string text.                       *)

IrrelevantTags == {"script", "style", "img", "input"}

\* bs4's Tag.string: the single string of an element, None when the element
\* has no child or more than one.
TagString(contents) ==
    IF Len(contents) # 1 THEN None ELSE Some(contents[1].text)

\* soup.body([...]) / decompose(), then get_text(separator="\n", strip=True):
\* the remaining strings, each stripped, the empty ones dropped.
BodyText(body) ==
    LET kept     == SelectSeq(body, LAMBDA n : n.tag \notin IrrelevantTags)
        stripped == [i \in 1..Len(kept) |-> Strip(kept[i].text)]
    IN  Join("\n", SelectSeq(stripped, LAMBDA t : t # ""))

TextOf(doc) == IF doc.body # None THEN BodyText(doc.body[1]) ELSE ""

\* 04: soup.title.string.strip() if soup.title else "No title found".
\* None stands for the AttributeError of None.strip().
Title04(doc) ==
    IF doc.title # None
    THEN LET s == TagString(doc.title[1])
         IN  IF s = None THEN None ELSE Some(Strip(s[1]))
    ELSE Some("No title found")

\* 05: soup.title.string if soup.title else "No title found".
\* The value may be Python's None.
Title05(doc) ==
    IF doc.title # None THEN TagString(doc.title[1]) ELSE Some("No title found")

\* A variant of CollectLinks that filters with "is not None": the empty
\* targets stay.
CollectLinksNotNone(anchors) ==
    LET kept == SelectSeq(anchors, LAMBDA h : h # None)
    IN  [i \in 1..Len(kept) |-> kept[i][1]]

\* 05: [link.get("href") for link in soup.find_all("a")], then the falsy
\* entries (None and "") filtered out.
CollectLinks(anchors) ==
    LET kept == SelectSeq(anchors, Truthy)
    IN  [i \in 1..Len(kept) |-> kept[i][1]]

\* A variant of FetchOk that rejects server errors only.
FetchOkBelow500(status) == status < 500

\* The status test of both constructors.
FetchOk(status) == status = 200

\* Website.__init__ of 04: [err, site].
Website04(url, r) ==
    IF ~FetchOk(r.status) THEN [err |-> "Exception", site |-> None]
    ELSE IF Title04(r.doc) = None THEN [err |-> "AttributeError", site |-> None]
    ELSE [err  |-> "none",
          site |-> Some([url   |-> url,
                         title |-> Title04(r.doc),
                         text  |-> TextOf(r.doc)])]

\* Website.__init__ of 05: [err, site].
Website05(url, r) ==
    IF ~FetchOk(r.status) THEN [err |-> "Exception", site |-> None]
    ELSE [err  |-> "none",
          site |-> Some([url   |-> url,
                         title |-> Title05(r.doc),
                         text  |-> TextOf(r.doc),
                         links |-> CollectLinks(r.doc.anchors)])]

Website(s, url, r) == IF s = "summarizer" THEN Website04(url, r) ELSE Website05(url, r)

\* An f-string's rendering of a value that may be None.
Fmt(o) == IF o = None THEN "None" ELSE o[1]

\* 05: Website.get_contents
get_contents(w) ==
    "Webpage Title:\n" \o Fmt(w.title) \o "\nWebpage Contents:\n" \o w.text \o "\n\n"

\* requests.get(url, headers=...): the call as it appears in net.
Get(url) == [op |-> "GET", url |-> url]

---------------------------------------------------------------------------
(* The requests to the text-generation service *)

MODEL == "gpt-4o-mini"

\* openai.chat.completions.create(...) as it appears in net, with the content
\* of the reply it received (response.choices[0].message.content).
Chat(system, user, json, content) ==
    [op |-> "CHAT", model |-> MODEL, system |-> system, user |-> user,
     json |-> json, stream |-> FALSE, reply |-> content]

\* 04: SYSTEM_PROMPT
SYSTEM_PROMPT ==
    "You are an assistant that analyzes the contents of a website "
    \o "and provides a short summary, ignoring text that might be navigation related. "
    \o "Respond in markdown."

\* 04: user_prompt_for
user_prompt_for(w) ==
    "You are looking at a website titled " \o Fmt(w.title) \o "\n\n"
    \o "The contents of this website are as follows; "
    \o "please provide a short summary of this website in markdown. "
    \o "If it includes news or announcements, then summarize these too.\n\n"
    \o w.text

\* 05: link_system_prompt
link_system_prompt ==
    "You are provided with a list of links found on a webpage. "
    \o "You are able to decide which of the links would be most relevant to include "
    \o "in a brochure about the company, such as links to an About page, Company page, or Careers/Jobs pages.\n"
    \o "You should respond in JSON as in this example:\n"
    \o "{\n"
    \o "    \"links\": [\n"
    \o "        {\"type\": \"about page\", \"url\": \"https://full.url/goes/here/about\"},\n"
    \o "        {\"type\": \"careers page\", \"url\": \"https://another.full.url/careers\"}\n"
    \o "    ]\n"
    \o "}\n"

\* 05: get_links_user_prompt
get_links_user_prompt(w) ==
    "Here is the list of links on the website of " \o w.url \o ". "
    \o "Please decide which of these are relevant web links for a brochure about the company. "
    \o "Respond with the full https URL in JSON format. "
    \o "Do not include Terms of Service, Privacy, or email links.\n\n"
    \o "Links (some might be relative links):\n"
    \o Join("\n", w.links)

\* 05: system_prompt
system_prompt ==
    "You are an assistant that analyzes the contents of several relevant pages "
    \o "from a company website and creates a short brochure about the company "
    \o "for prospective customers, investors, and recruits. Respond in markdown. "
    \o "Include details of company culture, customers, and careers/jobs if available."

\* 05: the character cap of get_brochure_user_prompt
Cap == 5000

\* 05: the lines get_brochure_user_prompt puts before get_all_details' text.
BrochureHeader(company_name) ==
    "You are looking at a company called: " \o company_name \o "\n"
    \o "Here are the contents of its landing page and other relevant pages; "
    \o "use this information to build a short brochure of the company in markdown.\n"

\* A variant of Prefix that cuts one character late.
PrefixOffByOne(s, n) == IF Len(s) <= n THEN s ELSE SubSeq(s, 1, n + 1)

\* s[:n]
Prefix(s, n) == IF Len(s) <= n THEN s ELSE SubSeq(s, 1, n)

\* 05: get_brochure_user_prompt, given what get_all_details(url) returned.
get_brochure_user_prompt(company_name, all_details) ==
    Prefix(BrochureHeader(company_name) \o all_details, Cap)

\* A variant of ReturnedText that strips the content.
ReturnedTextStripped(content) == Strip(content)

\* response.choices[0].message.content, as summarize and create_brochure
\* return it.
ReturnedText(content) == content

---------------------------------------------------------------------------
(* The classifier's reply and json.loads *)

\* 04 and 05 __main__: the URL and the company of the run.
Url(s) == IF s = "summarizer" THEN "https://edwarddonner.com" ELSE "https://huggingface.co"
company_name == "HuggingFace"

AboutUrl == "https://huggingface.co/about"

\* What the classifier may select: a sub-page, and the landing page itself.
LinkChoices ==
    {[type |-> "about page", url |-> AboutUrl],
     [type |-> "company page", url |-> Url("brochure")]}

\* The JSON text of {"links": [...]}, as the link_system_prompt asks for it.
Dumps(ls) ==
    "{\"links\": ["
    \o Join(", ", [i \in 1..Len(ls) |->
            "{\"type\": \"" \o ls[i].type \o "\", \"url\": \"" \o ls[i].url \o "\"}"])
    \o "]}"

Selections == SeqsUpTo(LinkChoices, MaxLinks)

\* Replies of the classifier: every selection as JSON, a JSON object without
\* "links", and two texts that are not JSON.
ClassifierTexts ==
    {Dumps(ls) : ls \in Selections}
        \cup {"{}", "Sorry, I cannot open links.", "{\"links\": [{\"type\": \"abo"}

\* A variant of json_loads that answers a text that is not JSON with an empty
\* selection.
json_loads_lenient(text) ==
    IF text = "{}" THEN Some([links |-> None])
    ELSE IF \E ls \in Selections : Dumps(ls) = text
    THEN Some([links |-> Some(CHOOSE ls \in Selections : Dumps(ls) = text)])
    ELSE Some([links |-> Some(<<>>)])

\* json.loads on the texts above: None stands for JSONDecodeError, a dict is
\* [links |-> None] without the key "links" and [links |-> Some(list)] with it.
json_loads(text) ==
    IF text = "{}" THEN Some([links |-> None])
    ELSE IF \E ls \in Selections : Dumps(ls) = text
    THEN Some([links |-> Some(CHOOSE ls \in Selections : Dumps(ls) = text)])
    ELSE None

\* What the generation requests may answer.
NarrativeTexts == {"# Summary\n\nA short text.\n", ""}

---------------------------------------------------------------------------
(* The web: what an HTTP GET may answer *)

Digits == Doubled("0123456789", 9)

\* A text of n characters.
Filler(n) == SubSeq(Digits, 1, n)

Txt(t) == [tag |-> "#text", text |-> t]
El(tag, t) == [tag |-> tag, text |-> t]

\* The body length at which the brochure prompt of a landing page titled
\* "Example", with no sub-page, is exactly Cap characters long.
ExactFit ==
    Cap - Len(BrochureHeader(company_name) \o "Landing page:\n"
              \o get_contents([title |-> Some("Example"), text |-> ""]))

Titles ==
    {None,                                   \* no <title>
     Some(<<>>),                             \* <title></title>
     Some(<<Txt("Example")>>),               \* <title>Example</title>
     Some(<<Txt("  Example \n")>>),
     Some(<<Txt("Ex"), El("b", "ample")>>)}  \* nested markup

Bodies ==
    {None,
     Some(<<El("p", "Hello"), El("script", "var x = 1;"), El("img", ""),
            El("p", "  World \n"), Txt("\n  "), El("style", "p {}")>>),
     Some(<<El("p", Filler(2400))>>)}

Hrefs == {None, Some(""), Some("/about"), Some("https://huggingface.co/careers")}

Statuses == {200, 201, 204, 404, 500}

\* The responses given to the constructor taken alone.
FetchResponses ==
    [status : Statuses,
     doc : [title : Titles, body : Bodies, anchors : SeqsUpTo(Hrefs, MaxAnchors)]]

Doc(t, b, a) == [title |-> t, body |-> b, anchors |-> a]

\* The pages of the runs.
Pages ==
    {Doc(Some(<<Txt("Example")>>), Some(<<El("p", "Hello"), El("p", "World")>>), <<>>),
     Doc(None, None, <<None, Some("/about"), Some(""), Some("/about")>>),
     Doc(Some(<<>>),
         Some(<<El("p", "Hello"), El("script", "var x = 1;"), El("p", "  World \n")>>),
         <<Some("/about"), None, Some("https://huggingface.co/careers")>>),
     Doc(Some(<<Txt("Example")>>), Some(<<El("p", Filler(2400))>>), <<>>),
     Doc(Some(<<Txt("Example")>>), Some(<<El("p", Filler(ExactFit))>>), <<>>),
     Doc(Some(<<Txt("Example")>>), Some(<<El("p", Filler(ExactFit + 1))>>), <<>>)}

ErrorPage == Doc(Some(<<Txt("Error")>>), Some(<<El("p", "Not here")>>), <<Some("/")>>)

\* The responses of the runs.
Responses ==
    [status : {200}, doc : Pages] \cup [status : Statuses \ {200}, doc : {ErrorPage}]

Keys ==
    {None, Some(""), Some("sk-proj-abcdef"), Some("sk-abcdef-123"),
     Some(" sk-proj-abcdef"), Some("sk-proj-abcdef\n"), Some("sk-proj-ab")}

Scripts == {"summarizer", "brochure"}

---------------------------------------------------------------------------
(* The runs *)

Init ==
    /\ script \in Scripts
    /\ api_key \in Keys
    /\ client = None
    /\ pc = "check_key"
    /\ err = "none"
    /\ out = <<>>
    /\ net = <<>>
    /\ resp = None
    /\ site = None
    /\ result = ""
    /\ links = <<>>
    /\ idx = 0
    /\ details = None
    /\ answer = None

\* An uncaught exception ends the run.
Raise(e) == pc' = "failed" /\ err' = e

\* Section 1 of both scripts.
CheckKey ==
    /\ pc = "check_key"
    /\ LET o == KeyCheck(script, api_key)
       IN  IF o = "ValueError"
           THEN Raise("ValueError") /\ UNCHANGED out
           ELSE out' = Append(out, o) /\ pc' = "init_client" /\ UNCHANGED err
    /\ UNCHANGED <<script, api_key, client, net, resp, site, result, links, idx,
                   details, answer>>

\* openai = OpenAI(api_key=api_key)
InitClient ==
    /\ pc = "init_client"
    /\ client' = api_key
    /\ pc' = "main"
    /\ UNCHANGED <<script, api_key, err, out, net, resp, site, result, links, idx,
                   details, answer>>

\* 04: summarize, up to the return of Website(url).
SummarizeFetch ==
    /\ pc = "main"
    /\ script = "summarizer"
    /\ \E r \in Responses :
        LET w == Website04(Url(script), r)
        IN  /\ net' = Append(net, Get(Url(script)))
            /\ resp' = Some(r)
            /\ IF w.err # "none"
               THEN Raise(w.err) /\ UNCHANGED site
               ELSE site' = w.site /\ pc' = "summarize_chat" /\ UNCHANGED err
    /\ UNCHANGED <<script, api_key, client, out, result, links, idx, details, answer>>

\* 04: summarize, the request and the return.
SummarizeChat ==
    /\ pc = "summarize_chat"
    /\ \E content \in NarrativeTexts :
        /\ net' = Append(net, Chat(SYSTEM_PROMPT, user_prompt_for(site[1]), FALSE, content))
        /\ answer' = Some(ReturnedText(content))
    /\ site' = None
    /\ pc' = "display"
    /\ UNCHANGED <<script, api_key, client, err, out, resp, result, links, idx, details>>

\* 04: display_summary, after summarize returned.
DisplaySummary ==
    /\ pc = "display"
    /\ out' = out \o <<"SUMMARY_OF", answer[1]>>
    /\ pc' = "done"
    /\ UNCHANGED <<script, api_key, client, err, net, resp, site, result, links, idx,
                   details, answer>>

\* 05: __main__'s first print, then create_brochure -> get_brochure_user_prompt
\* -> get_all_details, up to the landing page's get_contents().
DetailsLanding ==
    /\ pc = "main"
    /\ script = "brochure"
    /\ out' = Append(out, "GENERATING")
    /\ \E r \in Responses :
        LET w == Website05(Url(script), r)
        IN  /\ net' = Append(net, Get(Url(script)))
            /\ resp' = Some(r)
            /\ IF w.err # "none"
               THEN Raise(w.err) /\ result' = "Landing page:\n"
               ELSE /\ result' = "Landing page:\n" \o get_contents(w.site[1])
                    /\ pc' = "links_fetch"
                    /\ UNCHANGED err
    /\ UNCHANGED <<script, api_key, client, site, links, idx, details, answer>>

\* 05: get_all_details' return, reached when its loop has no link left.
ReturnDetails(text) == details' = Some(text) /\ pc' = "brochure_chat"

\* A variant of LinksFetch that builds get_links' Website from the landing
\* page's response instead of fetching the URL again.
LinksFetchReusesLanding ==
    /\ pc = "links_fetch"
    /\ site' = Website05(Url(script), resp[1]).site
    /\ pc' = "links_chat"
    /\ UNCHANGED <<script, api_key, client, err, out, net, resp, result, links, idx,
                   details, answer>>

\* 05: get_links, up to the return of Website(url).
LinksFetch ==
    /\ pc = "links_fetch"
    /\ \E r \in Responses :
        LET w == Website05(Url(script), r)
        IN  /\ net' = Append(net, Get(Url(script)))
            /\ resp' = Some(r)
            /\ IF w.err # "none"
               THEN Raise(w.err) /\ UNCHANGED site
               ELSE site' = w.site /\ pc' = "links_chat" /\ UNCHANGED err
    /\ UNCHANGED <<script, api_key, client, out, result, links, idx, details, answer>>

\* 05: get_links' request and json.loads, then get_all_details' print and the
\* evaluation of links["links"] that starts its loop.
LinksChat ==
    /\ pc = "links_chat"
    /\ \E text \in ClassifierTexts :
        LET parsed == json_loads(text)
        IN  /\ net' = Append(net, Chat(link_system_prompt,
                                       get_links_user_prompt(site[1]), TRUE, text))
            /\ IF parsed = None
               THEN /\ Raise("JSONDecodeError")
                    /\ UNCHANGED <<out, site, links, idx, details>>
               ELSE /\ out' = Append(out, "FOUND_LINKS")
                    /\ site' = None
                    /\ IF parsed[1].links = None
                       THEN Raise("KeyError") /\ UNCHANGED <<links, idx, details>>
                       ELSE /\ links' = parsed[1].links[1]
                            /\ UNCHANGED err
                            /\ IF Len(links') = 0
                               THEN ReturnDetails(result) /\ UNCHANGED idx
                               ELSE idx' = 1 /\ pc' = "sub_fetch" /\ UNCHANGED details
    /\ UNCHANGED <<script, api_key, client, resp, result, answer>>

\* A variant of SubFetch that leaves out a sub-page whose fetch fails and goes
\* on with the next link.
SubFetchSkipsFailed ==
    /\ pc = "sub_fetch"
    /\ \E r \in Responses :
        LET link   == links[idx]
            headed == result \o "\n\n" \o link.type \o "\n"
            w      == Website05(link.url, r)
        IN  /\ net' = Append(net, Get(link.url))
            /\ resp' = Some(r)
            /\ result' = IF w.err # "none" THEN headed
                         ELSE headed \o get_contents(w.site[1])
            /\ UNCHANGED err
            /\ IF idx = Len(links)
               THEN ReturnDetails(result') /\ UNCHANGED idx
               ELSE idx' = idx + 1 /\ UNCHANGED <<pc, details>>
    /\ UNCHANGED <<script, api_key, client, out, site, links, answer>>

\* 05: one round of get_all_details' loop.
SubFetch ==
    /\ pc = "sub_fetch"
    /\ \E r \in Responses :
        LET link   == links[idx]
            headed == result \o "\n\n" \o link.type \o "\n"
            w      == Website05(link.url, r)
        IN  /\ net' = Append(net, Get(link.url))
            /\ resp' = Some(r)
            /\ IF w.err # "none"
               THEN Raise(w.err) /\ result' = headed /\ UNCHANGED <<idx, details>>
               ELSE /\ result' = headed \o get_contents(w.site[1])
                    /\ UNCHANGED err
                    /\ IF idx = Len(links)
                       THEN ReturnDetails(result') /\ UNCHANGED idx
                       ELSE idx' = idx + 1 /\ UNCHANGED <<pc, details>>
    /\ UNCHANGED <<script, api_key, client, out, site, links, answer>>

\* 05: create_brochure's request, its argument built by
\* get_brochure_user_prompt from what get_all_details returned.
BrochureChat ==
    /\ pc = "brochure_chat"
    /\ \E content \in NarrativeTexts :
        /\ net' = Append(net, Chat(system_prompt,
                                   get_brochure_user_prompt(company_name, details[1]),
                                   FALSE, content))
        /\ answer' = Some(ReturnedText(content))
    /\ pc' = "print"
    /\ UNCHANGED <<script, api_key, client, err, out, resp, site, result, links, idx,
                   details>>

\* 05: __main__'s prints of the brochure.
PrintBrochure ==
    /\ pc = "print"
    /\ out' = out \o <<"BROCHURE_FOR", answer[1]>>
    /\ pc' = "done"
    /\ UNCHANGED <<script, api_key, client, err, net, resp, site, result, links, idx,
                   details, answer>>

Next ==
    \/ CheckKey
    \/ InitClient
    \/ SummarizeFetch
    \/ SummarizeChat
    \/ DisplaySummary
    \/ DetailsLanding
    \/ LinksFetch
    \/ LinksChat
    \/ SubFetch
    \/ BrochureChat
    \/ PrintBrochure

Spec == Init /\ [][Next]_vars

---------------------------------------------------------------------------
(* The constructor alone: Website(url) on every response of FetchResponses *)

InitFetch ==
    /\ script \in Scripts
    /\ api_key = Some("sk-proj-abcdef")
    /\ client = api_key
    /\ pc = "construct"
    /\ err = "none"
    /\ out = <<>>
    /\ net = <<>>
    /\ resp = None
    /\ site = None
    /\ result = ""
    /\ links = <<>>
    /\ idx = 0
    /\ details = None
    /\ answer = None

Construct ==
    /\ pc = "construct"
    /\ \E r \in FetchResponses :
        LET w == Website(script, Url(script), r)
        IN  /\ net' = Append(net, Get(Url(script)))
            /\ resp' = Some(r)
            /\ IF w.err # "none"
               THEN Raise(w.err) /\ UNCHANGED site
               ELSE site' = w.site /\ pc' = "constructed" /\ UNCHANGED err
    /\ UNCHANGED <<script, api_key, client, out, result, links, idx, details, answer>>

SpecFetch == InitFetch /\ [][Construct]_vars

---------------------------------------------------------------------------
(* The claims *)

IsGet(c) == c.op = "GET"
IsChat(c, system) == c.op = "CHAT" /\ c.system = system
Gets == SelectSeq(net, IsGet)
Fetched == resp # None
NonSuccess(status) == status \notin 200..299

\* C1: in both scripts, a response with a non-success status makes the
\* constructor raise; no Website is held, nothing is returned and no request
\* follows the GET that received it.
C1_NonSuccessFetchFails ==
    (Fetched /\ NonSuccess(resp[1].status)) =>
        /\ pc = "failed"
        /\ err = "Exception"
        /\ site = None
        /\ details = None
        /\ answer = None
        /\ IsGet(Last(net))

C1_Witness ==
    /\ Fetched
    /\ resp[1].status = 404
    /\ resp[1].doc.anchors # <<>>
    /\ pc = "failed"

\* C2: the user prompt of the brochure request is never longer than Cap; it
\* is the first Cap characters of the untruncated text when that is longer,
\* and the untruncated text itself otherwise.
C2_PromptCapped ==
    \A i \in 1..Len(net) :
        IsChat(net[i], system_prompt) =>
            LET full == BrochureHeader(company_name) \o details[1]
                sent == net[i].user
            IN  /\ Len(sent) <= Cap
                /\ (Len(full) > Cap => sent = SubSeq(full, 1, Cap))
                /\ (Len(full) <= Cap => sent = full)

C2_Witness ==
    /\ net # <<>>
    /\ IsChat(Last(net), system_prompt)
    /\ Len(BrochureHeader(company_name) \o details[1]) = Cap + 1
    /\ Len(Last(net).user) = Cap

\* C3: with the credential absent or empty the run ends in ValueError at the
\* check, before the client is built and with no network call issued.
C3_NoKeyNoNetwork ==
    ~Truthy(api_key) =>
        /\ net = <<>>
        /\ client = None
        /\ pc \in {"check_key", "failed"}
        /\ (pc = "failed" => err = "ValueError")

C3_Witness ==
    /\ api_key = Some("")
    /\ pc = "failed"
    /\ script = "summarizer"

SuspectKey(key) ==
    Truthy(key) /\ (~StartsWith(key[1], KeyPrefix) \/ Strip(key[1]) # key[1])

\* C4: in both scripts a non-empty credential with a wrong prefix or with
\* surrounding whitespace passes the check with a warning printed.
C4_SuspectKeyOnlyWarns ==
    (SuspectKey(api_key) /\ pc # "check_key") =>
        /\ err # "ValueError"
        /\ \E i \in 1..Len(out) : out[i] \in {"WARN_PREFIX", "WARN_WHITESPACE"}

\* The last response is a failed fetch of a selected sub-page.
SubPageFailed == idx >= 1 /\ Fetched /\ resp[1].status # 200

\* C5: when the fetch of the selected link at position idx fails, the run
\* ends there: get_all_details returns nothing, the links after idx are not
\* fetched and no brochure request is issued.
C5_SubPageFailureAborts ==
    SubPageFailed =>
        /\ pc = "failed"
        /\ err = "Exception"
        /\ details = None
        /\ answer = None
        /\ Last(net) = Get(links[idx].url)
        /\ Len(Gets) = 2 + idx
        /\ \A i \in 1..Len(net) : ~IsChat(net[i], system_prompt)

C5_Witness ==
    /\ SubPageFailed
    /\ idx = 1
    /\ Len(links) > 1
    /\ pc = "failed"

\* The texts json.loads accepts.
ValidJson == {Dumps(ls) : ls \in Selections} \cup {"{}"}

ClassifierReplyInvalid ==
    \E i \in 1..Len(net) : IsChat(net[i], link_system_prompt) /\ net[i].reply \notin ValidJson

\* C6: when the classifier's reply is not JSON the run ends in
\* JSONDecodeError: the classification request was issued once, no sub-page
\* is fetched, no document is returned and no brochure request is issued.
C6_BadJsonIsFatal ==
    ClassifierReplyInvalid =>
        /\ pc = "failed"
        /\ err = "JSONDecodeError"
        /\ Len(net) = 3
        /\ Len(Gets) = 2
        /\ links = <<>>
        /\ idx = 0
        /\ details = None
        /\ answer = None

C6_Witness ==
    /\ ClassifierReplyInvalid
    /\ pc = "failed"
    /\ site # None
    /\ site[1].links # <<>>

\* C7: the summary run issues one GET of the URL, then, when the page was
\* built, one non-streaming generation request, and returns the content of
\* its reply unchanged; it issues nothing else, whatever the page links to.
C7_SummarizeOneFetchOneRequest ==
    script = "summarizer" =>
        /\ Len(net) <= 2
        /\ (Len(net) >= 1 => net[1] = Get(Url("summarizer")))
        /\ (Len(net) = 2 =>
              /\ IsChat(net[2], SYSTEM_PROMPT)
              /\ ~net[2].stream
              /\ ~net[2].json
              /\ answer = Some(net[2].reply))
        /\ (pc = "summarize_chat" => Len(net) = 1)
        /\ (pc \in {"display", "done"} => Len(net) = 2)
        /\ (answer # None => Len(net) = 2)

C7_Witness ==
    /\ script = "summarizer"
    /\ pc = "done"
    /\ resp[1].doc.anchors # <<>>
    /\ answer # Some("")

\* The positions of the anchors with a non-empty target.
Targeted(a) == {i \in 1..Len(a) : a[i] # None /\ a[i] # Some("")}

\* The position of the j-th anchor with a non-empty target.
NthTargeted(a, j) ==
    CHOOSE i \in Targeted(a) : Cardinality({m \in Targeted(a) : m <= i}) = j

\* C8: the links of the brochure script's Website are the targets of the
\* anchors with a non-empty target, as written, in document order.
C8_LinksAreNonEmptyTargets ==
    (script = "brochure" /\ pc = "constructed") =>
        LET a == resp[1].doc.anchors
            l == site[1].links
        IN  /\ Len(l) = Cardinality(Targeted(a))
            /\ \A j \in 1..Len(l) : l[j] = a[NthTargeted(a, j)][1]

C8_Witness ==
    /\ script = "brochure"
    /\ pc = "constructed"
    /\ resp[1].doc.anchors = <<Some("/about"), Some(""), Some("/about")>>
    /\ site[1].links = <<"/about", "/about">>

\* C9: in both scripts a fetch with status 200 yields a Website whose title
\* is a text: the title element's text when there is one, "No title found"
\* when there is no title element.
C9_TitleIsText ==
    (Fetched /\ resp[1].status = 200) =>
        /\ pc # "failed"
        /\ site # None
        /\ site[1].title # None
        /\ (resp[1].doc.title = None => site[1].title = Some("No title found"))
        /\ (resp[1].doc.title # None /\ TagString(resp[1].doc.title[1]) # None =>
              LET s == TagString(resp[1].doc.title[1])[1]
              IN  site[1].title \in {Some(s), Some(Strip(s))})

\* A network call without its payload.
Call(c) == IF IsGet(c) THEN <<"GET", c.url>> ELSE <<"CHAT", c.system>>

\* The calls of a brochure run that selects ls and completes.
BrochureCalls(ls) ==
    <<Call(Get(Url("brochure"))), Call(Get(Url("brochure"))), <<"CHAT", link_system_prompt>>>>
        \o [i \in 1..Len(ls) |-> <<"GET", ls[i].url>>]
        \o <<<<"CHAT", system_prompt>>>>

\* C10: a brochure run issues its calls in this order: GET landing, GET
\* landing, the classification request, one GET per selected link in the
\* classifier's order, the brochure request; a run that completes issued all
\* of them, n + 2 GETs for n selected links.
C10_BrochureCallOrder ==
    script = "brochure" =>
        LET expected == BrochureCalls(links)
        IN  /\ Len(net) <= Len(expected)
            /\ \A i \in 1..Len(net) : Call(net[i]) = expected[i]
            /\ (Len(net) > 3 => net[3].reply = Dumps(links))
            /\ (pc = "brochure_chat" => Len(net) = Len(links) + 3)
            /\ (pc \in {"print", "done"} =>
                  Len(net) = Len(expected) /\ Len(Gets) = Len(links) + 2)

C10_Witness ==
    /\ script = "brochure"
    /\ pc = "done"
    /\ Len(links) = 2
    /\ links[1] = links[2]
    /\ links[1].url = Url("brochure")
    /\ Len(details[1]) > 2 * Cap

===========================================================================
